---- MODULE Spec2Model ----
(***************************************************************************)
(* Model of the opaque-identifier encryption service of the gallery        *)
(* (src/src/lib/utils.server.ts): the EncryptionService class, the module  *)
(* level construction of the exported singleton, the callers of encrypt /  *)
(* decrypt, and the GET handler of the internal encrypt route.             *)
(*                                                                         *)
(* Data representation                                                     *)
(*   byte          0..255                                                  *)
(*   Buffer        sequence of bytes                                       *)
(*   string        sequence of character codes (ASCII codes for tokens and *)
(*                 secrets, Unicode scalar values for plaintexts)          *)
(*   string?       [present : BOOLEAN, str : string]                       *)
(*                                                                         *)
(* The Node primitives the class calls (scryptSync, aes-256-gcm, Buffer    *)
(* encodings) are modelled by what they do to bytes.  scrypt and the GCM   *)
(* tag are keyed checksums that are collision free on the bounded domain   *)
(* of the model: the usual ideal-primitive assumption.                     *)
(***************************************************************************)
EXTENDS Integers, Sequences, FiniteSets, Bags, TLC

(***************************************************************************)
(* Bounds of the model.                                                    *)
(***************************************************************************)
NumCallers == 2
MaxIssued == 2

(***************************************************************************)
(* Program constants.                                                      *)
(***************************************************************************)
KeyLen == 32
IvLen == 12
TagEnd == 28
ByteRange == 256

Byte == 0..(ByteRange - 1)

\* "wedding-gallery-v2"
SALT == <<119, 101, 100, 100, 105, 110, 103, 45, 103, 97, 108, 108, 101, 114, 121, 45, 118, 50>>

(***************************************************************************)
(* Generic helpers on sequences and bytes.                                 *)
(***************************************************************************)
RECURSIVE WeightedSum(_, _, _)
\* sum of s[i] * (a + 2*i) over the sequence, every weight odd when a is odd
WeightedSum(s, a, i) ==
    IF i > Len(s) THEN 0 ELSE s[i] * (a + 2 * i) + WeightedSum(s, a, i + 1)

RECURSIVE BitXor(_, _)
BitXor(a, b) ==
    IF a = 0 THEN b
    ELSE IF b = 0 THEN a
    ELSE (((a % 2) + (b % 2)) % 2) + 2 * BitXor(a \div 2, b \div 2)

RECURSIVE Pow2(_)
Pow2(n) == IF n = 0 THEN 1 ELSE 2 * Pow2(n - 1)

\* Buffer.prototype.slice(from, to) with 0-based, end-exclusive offsets,
\* clamped to the buffer as Node does
Slice(buf, from, to) ==
    LET hi == IF to > Len(buf) THEN Len(buf) ELSE to
        lo == IF from > hi THEN hi ELSE from
    IN  [i \in 1..(hi - lo) |-> buf[lo + i]]

\* Buffer.concat
Concat(bufs) == bufs[1] \o bufs[2] \o bufs[3]

(***************************************************************************)
(* Optional strings (string | undefined | null).                           *)
(***************************************************************************)
Undefined == [present |-> FALSE, str |-> <<>>]
Str(s) == [present |-> TRUE, str |-> s]
\* JavaScript truthiness of a string-or-undefined value
Truthy(v) == v.present /\ Len(v.str) > 0

(***************************************************************************)
(* scryptSync(password, salt, keylen): deterministic, keylen bytes, every  *)
(* output byte depends on every password and salt byte.                    *)
(***************************************************************************)
scryptSync(password, salt, keylen) ==
    LET p == WeightedSum(password, 1, 1)
        q == WeightedSum(salt, 3, 1)
        n == Len(password)
    IN  [i \in 1..keylen |-> (p * (2 * i + 1) + q + 13 * n + i) % ByteRange]

(***************************************************************************)
(* String encodings used by the class.                                     *)
(***************************************************************************)
\* UTF-8 encoding of one Unicode scalar value
Utf8Char(cp) ==
    IF cp < 128 THEN <<cp>>
    ELSE IF cp < 2048 THEN <<192 + (cp \div 64), 128 + (cp % 64)>>
    ELSE IF cp < 65536 THEN
        <<224 + (cp \div 4096), 128 + ((cp \div 64) % 64), 128 + (cp % 64)>>
    ELSE <<240 + (cp \div 262144), 128 + ((cp \div 4096) % 64),
           128 + ((cp \div 64) % 64), 128 + (cp % 64)>>

RECURSIVE Utf8Encode(_)
Utf8Encode(s) == IF s = <<>> THEN <<>> ELSE Utf8Char(Head(s)) \o Utf8Encode(Tail(s))

IsCont(b) == b \div 64 = 2
\* U+FFFD
ReplacementChar == <<65533>>

\* UTF-8 decoding as Node's "utf8" output encoding does it: malformed input
\* never throws, each offending byte becomes U+FFFD
RECURSIVE Utf8Decode(_)
Utf8Decode(b) ==
    IF b = <<>> THEN <<>>
    ELSE LET c == b[1]
             n == Len(b)
         IN  IF c < 128 THEN <<c>> \o Utf8Decode(Tail(b))
             ELSE IF c \div 32 = 6 /\ c >= 194 /\ n >= 2 /\ IsCont(b[2])
                  THEN <<(c % 32) * 64 + (b[2] % 64)>> \o Utf8Decode(SubSeq(b, 3, n))
             ELSE IF c \div 16 = 14 /\ n >= 3 /\ IsCont(b[2]) /\ IsCont(b[3])
                     /\ (c % 16) * 4096 + (b[2] % 64) * 64 >= 2048
                  THEN <<(c % 16) * 4096 + (b[2] % 64) * 64 + (b[3] % 64)>>
                       \o Utf8Decode(SubSeq(b, 4, n))
             ELSE IF c \div 8 = 30 /\ n >= 4 /\ IsCont(b[2]) /\ IsCont(b[3]) /\ IsCont(b[4])
                     /\ (c % 8) * 262144 + (b[2] % 64) * 4096 >= 65536
                  THEN <<(c % 8) * 262144 + (b[2] % 64) * 4096 + (b[3] % 64) * 64
                         + (b[4] % 64)>> \o Utf8Decode(SubSeq(b, 5, n))
             ELSE ReplacementChar \o Utf8Decode(Tail(b))

\* "hex" output encoding: two hex digits (0..15) per byte
RECURSIVE ToHex(_)
ToHex(b) ==
    IF b = <<>> THEN <<>> ELSE <<b[1] \div 16, b[1] % 16>> \o ToHex(Tail(b))

\* Buffer.from(s, "hex") / update(s, "hex"): pairs of digits, an odd last digit dropped
FromHex(h) == [i \in 1..(Len(h) \div 2) |-> 16 * h[2 * i - 1] + h[2 * i]]

\* the base64url alphabet: A-Z a-z 0-9 - _
B64Char(v) ==
    IF v < 26 THEN 65 + v
    ELSE IF v < 52 THEN 97 + (v - 26)
    ELSE IF v < 62 THEN 48 + (v - 52)
    ELSE IF v = 62 THEN 45 ELSE 95

\* toString("base64") in place of toString("base64url"): '+' and '/' for the
\* values 62 and 63, and '=' padding to a multiple of four characters
RECURSIVE ToBase64(_)
ToBase64(b) ==
    LET n == Len(b)
        Std(v) == IF v = 62 THEN 43 ELSE IF v = 63 THEN 47 ELSE B64Char(v)
    IN  IF n = 0 THEN <<>>
        ELSE IF n = 1 THEN <<Std(b[1] \div 4), Std((b[1] % 4) * 16), 61, 61>>
        ELSE IF n = 2 THEN
            <<Std(b[1] \div 4), Std((b[1] % 4) * 16 + (b[2] \div 16)),
              Std((b[2] % 16) * 4), 61>>
        ELSE <<Std(b[1] \div 4), Std((b[1] % 4) * 16 + (b[2] \div 16)),
               Std((b[2] % 16) * 4 + (b[3] \div 64)), Std(b[3] % 64)>>
             \o ToBase64(SubSeq(b, 4, n))

\* Buffer.prototype.toString("base64url"): 3 bytes to 4 characters, no padding
RECURSIVE ToBase64url(_)
ToBase64url(b) ==
    LET n == Len(b)
    IN  IF n = 0 THEN <<>>
        ELSE IF n = 1 THEN <<B64Char(b[1] \div 4), B64Char((b[1] % 4) * 16)>>
        ELSE IF n = 2 THEN
            <<B64Char(b[1] \div 4), B64Char((b[1] % 4) * 16 + (b[2] \div 16)),
              B64Char((b[2] % 16) * 4)>>
        ELSE <<B64Char(b[1] \div 4), B64Char((b[1] % 4) * 16 + (b[2] \div 16)),
               B64Char((b[2] % 16) * 4 + (b[3] \div 64)), B64Char(b[3] % 64)>>
             \o ToBase64url(SubSeq(b, 4, n))

\* Node's unbase64 table: both the standard and the URL-safe alphabet decode,
\* every other character has no value (-1)
B64Val(c) ==
    IF c >= 65 /\ c <= 90 THEN c - 65
    ELSE IF c >= 97 /\ c <= 122 THEN c - 97 + 26
    ELSE IF c >= 48 /\ c <= 57 THEN c - 48 + 52
    ELSE IF c = 45 \/ c = 43 THEN 62
    ELSE IF c = 95 \/ c = 47 THEN 63
    ELSE -1

\* the 6-bit values Node's decoder reads from a string: characters without a
\* value are skipped, '=' (61) ends the input
Sextets(s) ==
    LET pads == {i \in 1..Len(s) : s[i] = 61}
        n == IF pads = {} THEN Len(s)
             ELSE (CHOOSE i \in pads : \A j \in pads : i <= j) - 1
        HasValue(c) == B64Val(c) >= 0
        read == SelectSeq(SubSeq(s, 1, n), HasValue)
    IN  [i \in 1..Len(read) |-> B64Val(read[i])]

RECURSIVE SextetsToBytes(_)
SextetsToBytes(v) ==
    LET n == Len(v)
    IN  IF n < 2 THEN <<>>
        ELSE IF n = 2 THEN <<v[1] * 4 + (v[2] \div 16)>>
        ELSE IF n = 3 THEN <<v[1] * 4 + (v[2] \div 16), (v[2] % 16) * 16 + (v[3] \div 4)>>
        ELSE <<v[1] * 4 + (v[2] \div 16), (v[2] % 16) * 16 + (v[3] \div 4),
               (v[3] % 4) * 64 + v[4]>> \o SextetsToBytes(SubSeq(v, 5, n))

\* Buffer.from(encoded, "base64url")
FromBase64url(s) == SextetsToBytes(Sextets(s))

(***************************************************************************)
(* Results of a call: a returned string or a thrown Error with a message.  *)
(***************************************************************************)
Return(v) == [ok |-> TRUE, value |-> v, message |-> ""]
Throw(m) == [ok |-> FALSE, value |-> <<>>, message |-> m]

(***************************************************************************)
(* aes-256-gcm as Node's createCipheriv / createDecipheriv expose it.      *)
(* The key stream is a function of (key, iv, position); the tag is a keyed *)
(* checksum of (key, iv, ciphertext) in which every input byte carries an  *)
(* odd weight in every tag byte.                                           *)
(***************************************************************************)
RECURSIVE Sum0(_, _)
Sum0(s, i) == IF i > Len(s) THEN 0 ELSE s[i] + Sum0(s, i + 1)
RECURSIVE Sum1(_, _)
Sum1(s, i) == IF i > Len(s) THEN 0 ELSE i * s[i] + Sum1(s, i + 1)

KeyStream(k, iv, n) ==
    LET m == 3 * Sum0(k, 1) + 2 * Sum1(k, 1) + 5 * Sum0(iv, 1) + 2 * Sum1(iv, 1)
    IN  [i \in 1..n |-> (m * (2 * i + 1) + 31 * i) % ByteRange]

XorBytes(a, b) == [i \in 1..Len(a) |-> BitXor(a[i], b[i])]

GcmTag(k, iv, ct) ==
    LET k0 == Sum0(k, 1)
        k1 == Sum1(k, 1)
        i0 == Sum0(iv, 1)
        i1 == Sum1(iv, 1)
        c0 == Sum0(ct, 1)
        c1 == Sum1(ct, 1)
    IN  [j \in 1..16 |->
            ((2 * j + 1) * k0 + 2 * k1 + (2 * j + 3) * i0 + 2 * i1
             + (4 * j + 5) * c0 + 2 * c1 + 7 * Len(ct) + 11 * Len(iv)) % ByteRange]

\* the authentication tag lengths setAuthTag accepts for GCM when
\* createDecipheriv was given no authTagLength option
ValidGcmTagLengths == {4, 8, 12, 13, 14, 15, 16}

AuthMsg == "Unsupported state or unable to authenticate data"
InvalidIvMsg == "Invalid initialization vector"
InvalidKeyMsg == "Invalid key length"
InvalidTagMsg(n) == "Invalid authentication tag length: " \o ToString(n)

\* Cipher with the plaintext read as "latin1" instead of "utf8": one byte per
\* character, the low eight bits of its code
CipherLatin1(k, iv, data) ==
    LET pt == [i \in 1..Len(data) |-> data[i] % ByteRange]
        ct == XorBytes(pt, KeyStream(k, iv, Len(pt)))
    IN  [message |-> "", encrypted |-> ToHex(ct), authTag |-> GcmTag(k, iv, ct)]

\* Cipher of a block mode with padding (aes-256-cbc and the like): the
\* plaintext is filled up to the next multiple of 16 bytes
CipherPadded(k, iv, data) ==
    LET raw == Utf8Encode(data)
        fill == 16 - (Len(raw) % 16)
        pt == raw \o [i \in 1..fill |-> fill]
        ct == XorBytes(pt, KeyStream(k, iv, Len(pt)))
    IN  [message |-> "", encrypted |-> ToHex(ct), authTag |-> GcmTag(k, iv, ct)]

\* lines 33-38: createCipheriv, update(data, "utf8", "hex") + final("hex"),
\* getAuthTag.  Returns the hex text and the 16-byte tag, or the message of
\* the Error thrown.
Cipher(k, iv, data) ==
    IF Len(k) # KeyLen THEN [message |-> InvalidKeyMsg, encrypted |-> <<>>, authTag |-> <<>>]
    ELSE IF Len(iv) = 0 THEN [message |-> InvalidIvMsg, encrypted |-> <<>>, authTag |-> <<>>]
    ELSE LET pt == Utf8Encode(data)
             ct == XorBytes(pt, KeyStream(k, iv, Len(pt)))
         IN  [message |-> "", encrypted |-> ToHex(ct), authTag |-> GcmTag(k, iv, ct)]

\* Decipher without the call of final(): update returns the bytes it
\* decrypted and the tag is never compared
DecipherWithoutFinal(k, iv, authTag, encryptedHex) ==
    LET ct == FromHex(encryptedHex)
    IN  Return(Utf8Decode(XorBytes(ct, KeyStream(k, iv, Len(ct)))))

\* lines 65-69: createDecipheriv, setAuthTag, update(hex, "hex", "utf8") +
\* final("utf8"); final compares the tag it was given, in its own length,
\* with the leading bytes of the tag it computed
Decipher(k, iv, authTag, encryptedHex) ==
    IF Len(k) # KeyLen THEN Throw(InvalidKeyMsg)
    ELSE IF Len(iv) = 0 THEN Throw(InvalidIvMsg)
    ELSE IF Len(authTag) \notin ValidGcmTagLengths THEN Throw(InvalidTagMsg(Len(authTag)))
    ELSE LET ct == FromHex(encryptedHex)
             pt == XorBytes(ct, KeyStream(k, iv, Len(ct)))
         IN  IF SubSeq(GcmTag(k, iv, ct), 1, Len(authTag)) = authTag
             THEN Return(Utf8Decode(pt))
             ELSE Throw(AuthMsg)

(***************************************************************************)
(* EncryptionService: the statements of encrypt and decrypt.               *)
(***************************************************************************)
\* SelectKey whose override branch derives with another salt than the constructor
SelectKeyOtherSalt(forceKey, thisKey) ==
    IF Truthy(forceKey) THEN scryptSync(forceKey.str, Tail(SALT), KeyLen) ELSE thisKey

\* SelectKey that tests the override for undefined instead of truthiness
SelectKeyIfDefined(forceKey, thisKey) ==
    IF forceKey.present THEN scryptSync(forceKey.str, SALT, KeyLen) ELSE thisKey

\* SelectKey whose override branch derives a 128-bit key
SelectKeyShort(forceKey, thisKey) ==
    IF Truthy(forceKey) THEN scryptSync(forceKey.str, SALT, KeyLen \div 2) ELSE thisKey

\* lines 30 and 57: const key = forceKey ? scryptSync(forceKey, SALT, 32) : this.key
SelectKey(forceKey, thisKey) ==
    IF Truthy(forceKey) THEN scryptSync(forceKey.str, SALT, KeyLen) ELSE thisKey

\* EncryptBody that drops the iv it was given and uses a constant one
EncryptBodyFixedIv(k, iv, data) ==
    LET fixed == [i \in 1..IvLen |-> 0]
        c == Cipher(k, fixed, data)
    IN  Return(ToBase64url(Concat(<<fixed, c.authTag, FromHex(c.encrypted)>>)))

\* EncryptBody that appends the tag after the ciphertext
EncryptBodyTagLast(k, iv, data) ==
    LET c == Cipher(k, iv, data)
    IN  IF c.message # ""
        THEN Throw("[EncryptionService.encrypt] " \o c.message)
        ELSE Return(ToBase64url(Concat(<<iv, FromHex(c.encrypted), c.authTag>>)))

\* lines 33-48 of encrypt, from the chosen key and iv to the returned token
\* or the rethrown Error
EncryptBody(k, iv, data) ==
    LET c == Cipher(k, iv, data)
    IN  IF c.message # ""
        THEN Throw("[EncryptionService.encrypt] " \o c.message)
        ELSE Return(ToBase64url(Concat(<<iv, c.authTag, FromHex(c.encrypted)>>)))

\* SplitEnvelope with the ciphertext cut one byte late
SplitEnvelopeLate(encoded) ==
    LET combined == FromBase64url(encoded)
    IN  [combined |-> combined,
         iv |-> Slice(combined, 0, IvLen),
         authTag |-> Slice(combined, IvLen, TagEnd),
         encryptedHex |-> ToHex(Slice(combined, TagEnd + 1, Len(combined)))]

\* lines 58-63 of decrypt: decode the text and cut the envelope
SplitEnvelope(encoded) ==
    LET combined == FromBase64url(encoded)
    IN  [combined |-> combined,
         iv |-> Slice(combined, 0, IvLen),
         authTag |-> Slice(combined, IvLen, TagEnd),
         encryptedHex |-> ToHex(Slice(combined, TagEnd, Len(combined)))]

\* DecryptBody whose catch block returns what update() had decrypted
DecryptBodyLeaky(k, iv, authTag, encryptedHex) ==
    LET d == Decipher(k, iv, authTag, encryptedHex)
        ct == FromHex(encryptedHex)
    IN  IF d.ok THEN d ELSE Return(Utf8Decode(XorBytes(ct, KeyStream(k, iv, Len(ct)))))

\* DecryptBody whose catch block logs the error and returns the empty string
DecryptBodySwallow(k, iv, authTag, encryptedHex) ==
    LET d == Decipher(k, iv, authTag, encryptedHex)
    IN  IF d.ok THEN d ELSE Return(<<>>)

\* lines 65-76 of decrypt: open, and rethrow what the cipher throws
DecryptBody(k, iv, authTag, encryptedHex) ==
    LET d == Decipher(k, iv, authTag, encryptedHex)
    IN  IF d.ok THEN d ELSE Throw("[EncryptionService.decrypt] " \o d.message)

(***************************************************************************)
(* Inputs of the model.                                                    *)
(***************************************************************************)
\* "kA" and "kB"
SecretA == <<107, 65>>
SecretB == <<107, 66>>
\* process.env.ENCRYPTION_KEY: unset, empty, or a secret
EnvKeys == {Undefined, Str(<<>>), Str(SecretA)}
\* process.env.GD_SERVICE_B64, by what the storage client makes of it
GdCredentials == {"valid", "undecodable", "unparsable"}
\* the forceKey argument: omitted, empty, the runtime secret, another secret
ForceKeys == {Undefined, Str(<<>>), Str(SecretA), Str(SecretB)}
\* plaintexts: "", and "a" followed by U+00E9 (two UTF-8 bytes)
Plaintexts == {<<>>, <<97, 233>>}
\* the values randomBytes(12) may return
Nonces == {[i \in 1..IvLen |-> 0], [i \in 1..IvLen |-> (23 * i) % ByteRange]}

Callers == 1..NumCallers

\* flip one bit of a buffer; bit positions count from 0, eight per byte
FlipBit(buf, pos) ==
    [buf EXCEPT ![(pos \div 8) + 1] = BitXor(@, Pow2(pos % 8))]

\* a string with one more character, put in after its first `at` characters
InsertAt(s, at, ch) == SubSeq(s, 1, at) \o <<ch>> \o SubSeq(s, at + 1, Len(s))

NoTamper == [kind |-> "none", at |-> 0]
\* a token after its decoded bytes were changed and encoded again ("flip",
\* "cut"), or after a character that is no base64url character got into its
\* text: '!' (33, "bang") or the padding character '=' (61, "pad")
Tamper(token, t) ==
    IF t.kind = "flip" THEN ToBase64url(FlipBit(FromBase64url(token), t.at))
    ELSE IF t.kind = "cut" THEN ToBase64url(Slice(FromBase64url(token), 0, t.at))
    ELSE IF t.kind = "bang" THEN InsertAt(token, t.at, 33)
    ELSE IF t.kind = "pad" THEN InsertAt(token, t.at, 61)
    ELSE token
Tampers(token) ==
    {[kind |-> "flip", at |-> p] : p \in 0..(8 * Len(FromBase64url(token)) - 1)}
    \cup {[kind |-> "cut", at |-> n] : n \in 0..(Len(FromBase64url(token)) - 1)}

TextTampers(token) ==
    {[kind |-> k, at |-> p] : k \in {"bang", "pad"}, p \in 0..Len(token)}

(***************************************************************************)
(* State.                                                                  *)
(***************************************************************************)
VARIABLES
    env,          \* process.env: ENCRYPTION_KEY, GD_SERVICE_B64 and NODE_ENV
    load,         \* evaluation of the module body: "start", "gdrive", "done", "failed"
    loadError,    \* message of the Error that ended the module evaluation
    state,        \* the service: "Uninitialized", "Ready", "Failed"
    key,          \* EncryptionService.key
    derivations,  \* number of times the constructor derived the default key
    calls,        \* per caller: the call in progress, its locals and its result
    issued,       \* the encrypt calls that returned a token: a bag of records
    route         \* the GET handler of the internal encrypt route: its position,
                  \* the query parameters, the token it holds, its response

vars == <<env, load, loadError, state, key, derivations, calls, issued, route>>

NoIssue == [token |-> <<>>, data |-> <<>>, forceKey |-> Undefined, iv |-> <<>>, key |-> <<>>]
NoResult == [ok |-> FALSE, value |-> <<>>, message |-> "(pending)"]
Idle ==
    [pc |-> "idle", op |-> "none", data |-> <<>>, encoded |-> <<>>,
     forceKey |-> Undefined, key |-> <<>>, iv |-> <<>>, authTag |-> <<>>,
     encryptedHex |-> <<>>, result |-> NoResult, src |-> NoIssue, tamper |-> NoTamper]

\* no response yet
NoResponse == [status |-> 0, body |-> [text |-> ""]]
NoRoute ==
    [pc |-> "idle", query |-> Undefined, key |-> Undefined, encrypted |-> <<>>,
     response |-> NoResponse]

\* the state before the module body is evaluated, for the given values of
\* NODE_ENV
InitEnv(nodeEnvs) ==
    /\ env \in [ENCRYPTION_KEY : EnvKeys, GD_SERVICE_B64 : GdCredentials,
                 NODE_ENV : nodeEnvs]
    /\ route = NoRoute
    /\ load = "start"
    /\ loadError = ""
    /\ state = "Uninitialized"
    /\ key = <<>>
    /\ derivations = 0
    /\ calls = [c \in Callers |-> Idle]
    /\ issued = EmptyBag

\* the values of process.env.NODE_ENV
NodeEnvs == {"development", "production", "test"}

\* the deployed application; the class never reads NODE_ENV
Init == InitEnv({"production"})
\* the application in every environment, for the route that reads NODE_ENV
InitRoute == InitEnv(NodeEnvs)

(***************************************************************************)
(* Module evaluation (lines 137-138).                                      *)
(***************************************************************************)
\* LoadGDrive whose constructor goes on with credentials it could not read
LoadGDriveLenient ==
    /\ load = "start"
    /\ load' = "gdrive"
    /\ UNCHANGED <<env, route, loadError, state, key, derivations, calls, issued>>

\* line 137: new GoogleDriveService(), whose constructor throws on
\* credentials it cannot decode or parse (lines 105-108)
LoadGDrive ==
    /\ load = "start"
    /\ IF env.GD_SERVICE_B64 = "valid"
       THEN load' = "gdrive" /\ loadError' = loadError
       ELSE /\ load' = "failed"
            /\ loadError' = IF env.GD_SERVICE_B64 = "undecodable"
                            THEN "Failed to decode GD_SERVICE_B64"
                            ELSE "Failed to parse service account"
    /\ UNCHANGED <<env, route, state, key, derivations, calls, issued>>

\* Constructor whose guard tests only for an unset variable
ConstructorAcceptsEmpty ==
    /\ load = "gdrive"
    /\ IF ~env.ENCRYPTION_KEY.present
       THEN /\ state' = "Failed"
            /\ load' = "failed"
            /\ loadError' = "ENCRYPTION_KEY is required in the environment variables."
            /\ UNCHANGED <<key, derivations>>
       ELSE /\ key' = scryptSync(env.ENCRYPTION_KEY.str, SALT, KeyLen)
            /\ derivations' = derivations + 1
            /\ state' = "Ready"
            /\ load' = "done"
            /\ loadError' = loadError
    /\ UNCHANGED <<env, route, calls, issued>>

\* line 138 and lines 15-21: new EncryptionService()
Constructor ==
    /\ load = "gdrive"
    /\ IF ~Truthy(env.ENCRYPTION_KEY)
       THEN /\ state' = "Failed"
            /\ load' = "failed"
            /\ loadError' = "ENCRYPTION_KEY is required in the environment variables."
            /\ UNCHANGED <<key, derivations>>
       ELSE /\ key' = scryptSync(env.ENCRYPTION_KEY.str, SALT, KeyLen)
            /\ derivations' = derivations + 1
            /\ state' = "Ready"
            /\ load' = "done"
            /\ loadError' = loadError
    /\ UNCHANGED <<env, route, calls, issued>>

(***************************************************************************)
(* encrypt(data, forceKey), statement by statement.                        *)
(***************************************************************************)
InFlightEncrypts == Cardinality({c \in Callers : calls[c].op = "encrypt" /\ calls[c].pc # "returned"})

\* a caller that imported encryptionService invokes encrypt (line 28)
EncryptCall(c, data, forceKey) ==
    /\ load = "done"
    /\ calls[c].pc = "idle"
    /\ BagCardinality(issued) + InFlightEncrypts < MaxIssued
    /\ calls' = [calls EXCEPT ![c] =
                    [Idle EXCEPT !.pc = "enc_key", !.op = "encrypt",
                                 !.data = data, !.forceKey = forceKey]]
    /\ UNCHANGED <<env, route, load, loadError, state, key, derivations, issued>>

\* EncryptKey that keeps the key it derived in this.key
EncryptKeyCaching(c) ==
    /\ calls[c].pc = "enc_key"
    /\ calls' = [calls EXCEPT ![c].key = SelectKey(calls[c].forceKey, key),
                              ![c].pc = "enc_iv"]
    /\ key' = SelectKey(calls[c].forceKey, key)
    /\ UNCHANGED <<env, route, load, loadError, state, derivations, issued>>

\* line 30
EncryptKey(c) ==
    /\ calls[c].pc = "enc_key"
    /\ calls' = [calls EXCEPT ![c].key = SelectKey(calls[c].forceKey, key),
                              ![c].pc = "enc_iv"]
    /\ UNCHANGED <<env, route, load, loadError, state, key, derivations, issued>>

\* line 31: const iv = randomBytes(12)
EncryptIv(c) ==
    /\ calls[c].pc = "enc_iv"
    /\ \E iv \in Nonces :
          calls' = [calls EXCEPT ![c].iv = iv, ![c].pc = "enc_cipher"]
    /\ UNCHANGED <<env, route, load, loadError, state, key, derivations, issued>>

\* lines 33-48
EncryptCipher(c) ==
    /\ calls[c].pc = "enc_cipher"
    /\ LET r == EncryptBody(calls[c].key, calls[c].iv, calls[c].data)
       IN  /\ calls' = [calls EXCEPT ![c].result = r, ![c].pc = "returned"]
           /\ issued' = IF r.ok
                        THEN issued (+) SetToBag({[token |-> r.value, data |-> calls[c].data,
                                                   forceKey |-> calls[c].forceKey,
                                                   iv |-> calls[c].iv, key |-> calls[c].key]})
                        ELSE issued
    /\ UNCHANGED <<env, route, load, loadError, state, key, derivations>>

(***************************************************************************)
(* decrypt(encoded, forceKey), statement by statement.                     *)
(***************************************************************************)
\* a caller invokes decrypt (line 55) on the text it holds: a token some
\* encrypt call returned (src), possibly changed on the way (tamper)
DecryptCall(c, src, tamper, forceKey) ==
    /\ load = "done"
    /\ calls[c].pc = "idle"
    /\ calls' = [calls EXCEPT ![c] =
                    [Idle EXCEPT !.pc = "dec_key", !.op = "decrypt",
                                 !.encoded = Tamper(src.token, tamper),
                                 !.forceKey = forceKey, !.src = src, !.tamper = tamper]]
    /\ UNCHANGED <<env, route, load, loadError, state, key, derivations, issued>>

\* DecryptKey that keeps the key it derived in this.key
DecryptKeyCaching(c) ==
    /\ calls[c].pc = "dec_key"
    /\ calls' = [calls EXCEPT ![c].key = SelectKey(calls[c].forceKey, key),
                              ![c].pc = "dec_split"]
    /\ key' = SelectKey(calls[c].forceKey, key)
    /\ UNCHANGED <<env, route, load, loadError, state, derivations, issued>>

\* line 57
DecryptKey(c) ==
    /\ calls[c].pc = "dec_key"
    /\ calls' = [calls EXCEPT ![c].key = SelectKey(calls[c].forceKey, key),
                              ![c].pc = "dec_split"]
    /\ UNCHANGED <<env, route, load, loadError, state, key, derivations, issued>>

\* lines 58-63
DecryptSplit(c) ==
    /\ calls[c].pc = "dec_split"
    /\ LET e == SplitEnvelope(calls[c].encoded)
       IN  calls' = [calls EXCEPT ![c].iv = e.iv, ![c].authTag = e.authTag,
                                  ![c].encryptedHex = e.encryptedHex,
                                  ![c].pc = "dec_open"]
    /\ UNCHANGED <<env, route, load, loadError, state, key, derivations, issued>>

\* lines 65-76
DecryptOpen(c) ==
    /\ calls[c].pc = "dec_open"
    /\ calls' = [calls EXCEPT
                    ![c].result = DecryptBody(calls[c].key, calls[c].iv,
                                              calls[c].authTag, calls[c].encryptedHex),
                    ![c].pc = "returned"]
    /\ UNCHANGED <<env, route, load, loadError, state, key, derivations, issued>>

\* the caller takes the result; the locals of the call are gone
Finish(c) ==
    /\ calls[c].pc = "returned"
    /\ calls' = [calls EXCEPT ![c] = Idle]
    /\ UNCHANGED <<env, route, load, loadError, state, key, derivations, issued>>

(***************************************************************************)
(* GET of the internal encrypt route (lines 146-175), statement by         *)
(* statement.  The route module imports encryptionService, so the handler  *)
(* exists only after the module body was evaluated.  The handler's calls   *)
(* of encrypt and decrypt are calls of the caller Main.                    *)
(***************************************************************************)
\* searchParams.get("q") and searchParams.get("key"): null, "" or a string
RouteQueries == {Undefined, Str(<<>>), Str(<<97, 233>>)}
RouteKeys == {Undefined, Str(<<>>), Str(SecretB)}

\* the caller on whose behalf the handler calls the service
RouteCaller == CHOOSE c \in Callers : \A d \in Callers : c <= d

TextResponse(status, text) == [status |-> status, body |-> [text |-> text]]
RouteIdle == route.pc \in {"idle", "done"}

\* a request arrives (line 146)
RouteRequest(q, k) ==
    /\ load = "done"
    /\ RouteIdle
    /\ \A d \in Callers : calls[d].pc = "idle"
    /\ BagCardinality(issued) < MaxIssued
    /\ route' = [NoRoute EXCEPT !.pc = "gate", !.query = q, !.key = k]
    /\ UNCHANGED <<env, load, loadError, state, key, derivations, calls, issued>>

\* RouteGate without the test of NODE_ENV
RouteGateOpen ==
    /\ route.pc = "gate"
    /\ route' = [route EXCEPT !.pc = "query"]
    /\ UNCHANGED <<env, load, loadError, state, key, derivations, calls, issued>>

\* lines 148-150
RouteGate ==
    /\ route.pc = "gate"
    /\ route' = IF env.NODE_ENV # "development"
                THEN [route EXCEPT !.pc = "done",
                                   !.response = TextResponse(404, "Not available in production")]
                ELSE [route EXCEPT !.pc = "query"]
    /\ UNCHANGED <<env, load, loadError, state, key, derivations, calls, issued>>

\* lines 153-156
RouteQuery ==
    /\ route.pc = "query"
    /\ route' = IF ~Truthy(route.query)
                THEN [route EXCEPT !.pc = "done",
                        !.response = TextResponse(400,
                            "Add query parameter 'q' with the value to encrypt")]
                ELSE [route EXCEPT !.pc = "encrypt"]
    /\ UNCHANGED <<env, load, loadError, state, key, derivations, calls, issued>>

\* line 158, the call: encryptionService.encrypt(query, key ?? undefined)
RouteCallEncrypt ==
    /\ route.pc = "encrypt"
    /\ EncryptCall(RouteCaller, route.query.str, route.key)

\* line 158, the assignment of what encrypt returned; lines 170-174 when it threw
RouteTakeEncrypted ==
    LET c == RouteCaller
    IN  /\ route.pc = "encrypt"
        /\ calls[c].pc = "returned"
        /\ route' = IF calls[c].result.ok
                    THEN [route EXCEPT !.pc = "decrypt", !.encrypted = calls[c].result.value]
                    ELSE [route EXCEPT !.pc = "done",
                                       !.response = TextResponse(500, calls[c].result.message)]
        /\ calls' = [calls EXCEPT ![c] = Idle]
        /\ UNCHANGED <<env, load, loadError, state, key, derivations, issued>>

\* RouteCallDecrypt that leaves out the key: decrypt(encrypted)
RouteCallDecryptNoKey ==
    /\ route.pc = "decrypt"
    /\ \E src \in BagToSet(issued) :
          /\ src.token = route.encrypted
          /\ src.data = route.query.str
          /\ src.forceKey = route.key
          /\ DecryptCall(RouteCaller, src, NoTamper, Undefined)

\* line 159, the call: encryptionService.decrypt(encrypted, key ?? undefined)
RouteCallDecrypt ==
    /\ route.pc = "decrypt"
    /\ \E src \in BagToSet(issued) :
          /\ src.token = route.encrypted
          /\ src.data = route.query.str
          /\ src.forceKey = route.key
          /\ DecryptCall(RouteCaller, src, NoTamper, route.key)

\* lines 159-169: the response with both values; lines 170-174 when decrypt threw
RouteRespond ==
    LET c == RouteCaller
    IN  /\ route.pc = "decrypt"
        /\ calls[c].pc = "returned"
        /\ route' = [route EXCEPT
                        !.pc = "done",
                        !.response =
                            IF calls[c].result.ok
                            THEN [status |-> 200,
                                  body |-> [message |-> IF Truthy(route.key)
                                                        THEN "Encrypted with provided key"
                                                        ELSE "Encrypted with environment key",
                                            encryptedValue |-> route.encrypted,
                                            decryptedValue |-> calls[c].result.value]]
                            ELSE TextResponse(500, calls[c].result.message)]
        /\ calls' = [calls EXCEPT ![c] = Idle]
        /\ UNCHANGED <<env, load, loadError, state, key, derivations, issued>>

(***************************************************************************)
(* Specifications.                                                         *)
(***************************************************************************)
\* encrypt and decrypt are synchronous: a call runs to completion before
\* the next one starts
NoneInFlight == \A d \in Callers : calls[d].pc = "idle"
\* the caller of the sequential specifications
Main == CHOOSE c \in Callers : \A d \in Callers : c <= d

StartEncrypt(c) == \E data \in Plaintexts, forceKey \in ForceKeys : EncryptCall(c, data, forceKey)
StartDecrypt(c) ==
    \E src \in BagToSet(issued), forceKey \in ForceKeys : DecryptCall(c, src, NoTamper, forceKey)
\* decrypt of a changed token, under the key source the token was made with
StartTampered(c) ==
    \E src \in BagToSet(issued) : \E t \in Tampers(src.token) :
        DecryptCall(c, src, t, src.forceKey)

Step(c) ==
    \/ EncryptKey(c)
    \/ EncryptIv(c)
    \/ EncryptCipher(c)
    \/ DecryptKey(c)
    \/ DecryptSplit(c)
    \/ DecryptOpen(c)
    \/ Finish(c)

Next ==
    \/ LoadGDrive
    \/ Constructor
    \/ NoneInFlight /\ StartEncrypt(Main)
    \/ NoneInFlight /\ StartDecrypt(Main)
    \/ \E c \in Callers : Step(c)

Spec == Init /\ [][Next]_vars

\* the same calls on changed tokens: one token is issued, then bit flips and
\* truncations of it are handed to decrypt
TamperNext ==
    \/ LoadGDrive
    \/ Constructor
    \/ NoneInFlight /\ issued = EmptyBag /\ StartEncrypt(Main)
    \/ NoneInFlight /\ StartTampered(Main)
    \/ \E c \in Callers : Step(c)

SpecTamper == Init /\ [][TamperNext]_vars

\* callers on concurrent threads or tasks: the statements of their calls
\* interleave in every order
ConcForceKeys == {Undefined, Str(SecretB)}
ConcPlaintexts == {<<97, 233>>}
ConcEncrypt(c) ==
    \E data \in ConcPlaintexts, forceKey \in ConcForceKeys : EncryptCall(c, data, forceKey)
ConcDecrypt(c) ==
    \E src \in BagToSet(issued) : DecryptCall(c, src, NoTamper, src.forceKey)

ConcNext ==
    \/ LoadGDrive
    \/ Constructor
    \/ \E c \in Callers : ConcEncrypt(c)
    \/ \E c \in Callers : ConcDecrypt(c)
    \/ \E c \in Callers : Step(c)

SpecConc == Init /\ [][ConcNext]_vars

\* tokens as text from outside (a URL path segment, part_001): one token is
\* issued, then it is handed to decrypt unchanged under any key source, or
\* with a foreign character in it under its own key source; a caller whose
\* decrypt failed may be followed by a call with the same arguments
StartGarbled(c) ==
    \E src \in BagToSet(issued) : \E t \in TextTampers(src.token) :
        DecryptCall(c, src, t, src.forceKey)
Repeat(d) ==
    \E c \in Callers \ {d} :
        /\ calls[c].pc = "returned" /\ calls[c].op = "decrypt"
        /\ ~calls[c].result.ok
        /\ DecryptCall(d, calls[c].src, calls[c].tamper, calls[c].forceKey)

TextNext ==
    \/ LoadGDrive
    \/ Constructor
    \/ NoneInFlight /\ issued = EmptyBag /\ StartEncrypt(Main)
    \/ NoneInFlight /\ StartDecrypt(Main)
    \/ NoneInFlight /\ StartGarbled(Main)
    \/ \E d \in Callers : Repeat(d)
    \/ \E c \in Callers : Step(c)

SpecText == Init /\ [][TextNext]_vars

\* identifiers of the length the service is used for: the example folder ID
\* "1rTymTXw2xXa8nm7FbN53yXSmEtvR0_UR" of the tests, an identifier of 35
\* ASCII characters, and the plaintext whose UTF-8 form is longer than its
\* character count
FolderId ==
    <<49, 114, 84, 121, 109, 84, 88, 119, 50, 120, 88, 97, 56, 110, 109, 55, 70,
      98, 78, 53, 51, 121, 88, 83, 109, 69, 116, 118, 82, 48, 95, 85, 82>>
Identifier35 == [i \in 1..35 |-> 97 + (i % 26)]
LengthPlaintexts == {FolderId, Identifier35, <<97, 233>>}

LengthEncrypt(c) ==
    \E data \in LengthPlaintexts, forceKey \in ConcForceKeys : EncryptCall(c, data, forceKey)

LengthNext ==
    \/ LoadGDrive
    \/ Constructor
    \/ NoneInFlight /\ LengthEncrypt(Main)
    \/ NoneInFlight /\ ConcDecrypt(Main)
    \/ \E c \in Callers : Step(c)

SpecLength == Init /\ [][LengthNext]_vars

\* the route next to direct callers of the service: requests with every
\* combination of the two query parameters, in every environment, and direct
\* calls without override or with the empty override
ImplicitKeys == {Undefined, Str(<<>>)}
DirectEncrypt ==
    /\ RouteIdle /\ NoneInFlight
    /\ \E data \in ConcPlaintexts, forceKey \in ImplicitKeys : EncryptCall(Main, data, forceKey)
DirectDecrypt ==
    /\ RouteIdle /\ NoneInFlight
    /\ \E src \in BagToSet(issued), forceKey \in ImplicitKeys :
          DecryptCall(Main, src, NoTamper, forceKey)
\* the statements of a call in progress, up to its return
CallStep(c) ==
    \/ EncryptKey(c)
    \/ EncryptIv(c)
    \/ EncryptCipher(c)
    \/ DecryptKey(c)
    \/ DecryptSplit(c)
    \/ DecryptOpen(c)

RouteNext ==
    \/ LoadGDrive
    \/ Constructor
    \/ \E q \in RouteQueries, k \in RouteKeys : RouteRequest(q, k)
    \/ RouteGate
    \/ RouteQuery
    \/ RouteCallEncrypt
    \/ RouteTakeEncrypted
    \/ RouteCallDecrypt
    \/ RouteRespond
    \/ DirectEncrypt
    \/ DirectDecrypt
    \/ RouteIdle /\ Finish(Main)
    \/ \E c \in Callers : CallStep(c)

SpecRoute == InitRoute /\ [][RouteNext]_vars

(***************************************************************************)
(* Vocabulary of the properties.                                           *)
(***************************************************************************)
\* the failure decrypt reports when tag verification does not pass
AuthenticationFailure(r) ==
    ~r.ok /\ r.message = "[EncryptionService.decrypt] " \o AuthMsg

Returned(c, op) == calls[c].pc = "returned" /\ calls[c].op = op
\* a decrypt call that returned, on a token exactly as encrypt returned it
DecryptedIntact(c) == Returned(c, "decrypt") /\ calls[c].tamper = NoTamper
DefaultKey == scryptSync(env.ENCRYPTION_KEY.str, SALT, KeyLen)

(***************************************************************************)
(* Properties.                                                             *)
(***************************************************************************)
\* C1  Round trip on the default key: a decrypt call without override, on a
\* token that an encrypt call without override returned, returns exactly the
\* plaintext of that encrypt call and does not fail; for every plaintext and
\* every nonce the encrypt call drew.
RoundTripDefaultKey ==
    \A c \in Callers :
        (DecryptedIntact(c) /\ ~calls[c].forceKey.present /\ ~calls[c].src.forceKey.present)
            => calls[c].result = Return(calls[c].src.data)

\* a default-key round trip of the non-ASCII plaintext has returned
RoundTripDefaultKeyWitness ==
    \E c \in Callers :
        /\ DecryptedIntact(c)
        /\ ~calls[c].forceKey.present /\ ~calls[c].src.forceKey.present
        /\ calls[c].src.data = <<97, 233>>
        /\ calls[c].result.ok

\* C2  Tamper detection: decrypt of a token in which one bit of the decoded
\* bytes was flipped (nonce, tag or ciphertext) fails with
\* AuthenticationFailure and returns no plaintext.
TamperDetected ==
    \A c \in Callers :
        (Returned(c, "decrypt") /\ calls[c].tamper.kind = "flip")
            => AuthenticationFailure(calls[c].result)

\* a decrypt of a token with a bit flipped in its ciphertext has returned
TamperDetectedWitness ==
    \E c \in Callers :
        /\ Returned(c, "decrypt")
        /\ calls[c].tamper.kind = "flip"
        /\ calls[c].tamper.at >= 8 * TagEnd
        /\ ~calls[c].result.ok

\* C3  Cross-key isolation, as claimed: decrypt under a supplied secret keyB
\* of a token encrypted under a different supplied secret keyA fails with
\* AuthenticationFailure, for every pair of distinct secrets.
CrossKeyIsolation ==
    \A c \in Callers :
        (/\ DecryptedIntact(c)
         /\ calls[c].forceKey.present /\ calls[c].src.forceKey.present
         /\ calls[c].forceKey # calls[c].src.forceKey)
            => AuthenticationFailure(calls[c].result)

\* the part of C3 the code keeps: isolation between distinct non-empty secrets
CrossKeyIsolationNonEmpty ==
    \A c \in Callers :
        (/\ DecryptedIntact(c)
         /\ Truthy(calls[c].forceKey) /\ Truthy(calls[c].src.forceKey)
         /\ calls[c].forceKey # calls[c].src.forceKey)
            => AuthenticationFailure(calls[c].result)

\* C4  Cross-key consistency: decrypt with the caller-supplied secret k of a
\* token encrypted with the same supplied secret k returns the plaintext.
CrossKeyConsistency ==
    \A c \in Callers :
        (/\ DecryptedIntact(c)
         /\ calls[c].forceKey.present
         /\ calls[c].forceKey = calls[c].src.forceKey)
            => calls[c].result = Return(calls[c].src.data)

\* an explicit-key round trip under SecretB of the non-ASCII plaintext has returned
CrossKeyConsistencyWitness ==
    \E c \in Callers :
        /\ DecryptedIntact(c)
        /\ calls[c].forceKey = Str(SecretB)
        /\ calls[c].src.forceKey = Str(SecretB)
        /\ calls[c].src.data = <<97, 233>>
        /\ calls[c].result.ok

\* C5  The default-key and the explicit-key path interoperate: with S the
\* runtime secret, a token of encrypt(P) is decrypted to P by decrypt(token, S)
\* and a token of encrypt(P, S) is decrypted to P by decrypt(token).
PathsInteroperate ==
    \A c \in Callers :
        (/\ DecryptedIntact(c)
         /\ \/ ~calls[c].src.forceKey.present /\ calls[c].forceKey = env.ENCRYPTION_KEY
            \/ calls[c].src.forceKey = env.ENCRYPTION_KEY /\ ~calls[c].forceKey.present)
            => calls[c].result = Return(calls[c].src.data)

\* a token made on the default key was decrypted under the supplied runtime secret
PathsInteroperateWitness ==
    \E c \in Callers :
        /\ DecryptedIntact(c)
        /\ ~calls[c].src.forceKey.present
        /\ calls[c].forceKey = env.ENCRYPTION_KEY
        /\ calls[c].src.data = <<97, 233>>
        /\ calls[c].result.ok

\* C6  Minimum-length rejection, as claimed: every decrypt of a token whose
\* decoded form has fewer than 28 bytes fails, and with a failure other than
\* AuthenticationFailure.
ShortTokenRejectedAsMalformed ==
    \A c \in Callers :
        (Returned(c, "decrypt") /\ Len(FromBase64url(calls[c].encoded)) < TagEnd)
            => (~calls[c].result.ok /\ ~AuthenticationFailure(calls[c].result))

InitStateMachine ==
    /\ [](/\ state \in {"Uninitialized", "Ready", "Failed"}
          /\ state = "Ready" =>
                (Truthy(env.ENCRYPTION_KEY) /\ key = DefaultKey /\ load = "done")
          /\ state = "Failed" =>
                (/\ ~Truthy(env.ENCRYPTION_KEY)
                 /\ load = "failed"
                 /\ loadError = "ENCRYPTION_KEY is required in the environment variables.")
          /\ \A c \in Callers : calls[c].pc # "idle" => state = "Ready")
    /\ [][/\ state = "Failed" => state' = "Failed"
          /\ (load = "gdrive" /\ load' # "gdrive" /\ ~Truthy(env.ENCRYPTION_KEY))
                => state' = "Failed"
          /\ (state # "Ready" /\ state' = "Ready")
                => (state = "Uninitialized" /\ derivations' = derivations + 1)]_vars

\* the constructor ran with an empty runtime secret and the service is Failed
InitStateMachineWitness ==
    state = "Failed" /\ env.ENCRYPTION_KEY = Str(<<>>)

\* C9  Cached key immutability and frame: once Ready the default key equals
\* derive(runtime secret) and was derived exactly once; no step of any call
\* changes it; a finished call leaves no key behind; a default-key encrypt
\* returns what the runtime secret, its plaintext and its nonce determine,
\* whatever override calls preceded it.
CachedKeyImmutable ==
    /\ [](/\ state = "Ready" => (key = DefaultKey /\ derivations = 1)
          /\ derivations <= 1
          /\ \A c \in Callers :
                /\ calls[c].pc = "idle" => calls[c].key = <<>>
                /\ (Returned(c, "encrypt") /\ ~Truthy(calls[c].forceKey))
                      => calls[c].result = EncryptBody(DefaultKey, calls[c].iv, calls[c].data))
    /\ [][state = "Ready" => (key' = key /\ derivations' = derivations)]_vars

\* a default-key encrypt returned after an encrypt under another secret had returned
CachedKeyImmutableWitness ==
    \E c \in Callers :
        /\ Returned(c, "encrypt")
        /\ ~calls[c].forceKey.present
        /\ \E r \in BagToSet(issued) : r.forceKey = Str(SecretB)

\* what a call returns when run alone: its inputs, the key its key source
\* names and the nonce it drew, pushed through the pipeline
Alone(call) ==
    LET k == SelectKey(call.forceKey, DefaultKey)
    IN  IF call.op = "encrypt" THEN EncryptBody(k, call.iv, call.data)
        ELSE LET e == SplitEnvelope(call.encoded)
             IN  DecryptBody(k, e.iv, e.authTag, e.encryptedHex)

\* C10  Concurrent callers do not interfere: under every interleaving of the
\* statements of the callers' calls, a call returns what it returns when run
\* alone, and a decrypt of a token whose encrypt has returned, under the same
\* key source, returns the original plaintext.
CallersDoNotInterfere ==
    \A c \in Callers :
        calls[c].pc = "returned" =>
            /\ calls[c].result = Alone(calls[c])
            /\ (calls[c].op = "decrypt" /\ calls[c].forceKey = calls[c].src.forceKey)
                  => calls[c].result = Return(calls[c].src.data)

\* a decrypt returned the plaintext while another caller, using the other
\* key source, was in the middle of a call
CallersDoNotInterfereWitness ==
    \E c, d \in Callers :
        /\ c # d
        /\ Returned(c, "decrypt")
        /\ calls[c].result.ok
        /\ calls[c].src.data = <<97, 233>>
        /\ calls[d].pc \in {"enc_iv", "enc_cipher", "dec_split", "dec_open"}
        /\ calls[d].forceKey # calls[c].forceKey

\* the unpadded URL-safe base64 alphabet: A-Z a-z 0-9 '-' '_'
TokenAlphabet == (65..90) \cup (97..122) \cup (48..57) \cup {45, 95}
InAlphabet(s) == \A i \in 1..Len(s) : s[i] \in TokenAlphabet

\* C11  Token alphabet: every token an encrypt call returned, on the default
\* key or under a supplied secret, for the empty plaintext too, is non-empty
\* and consists only of A-Z a-z 0-9 '-' '_'; it holds no '+', '/' or '='.
TokenInAlphabet ==
    /\ \A r \in BagToSet(issued) : Len(r.token) > 0 /\ InAlphabet(r.token)
    /\ \A c \in Callers :
          (Returned(c, "encrypt") /\ calls[c].result.ok)
              => (/\ Len(calls[c].result.value) > 0
                  /\ InAlphabet(calls[c].result.value)
                  /\ \A i \in 1..Len(calls[c].result.value) :
                        calls[c].result.value[i] \notin {43, 47, 61})

\* tokens of the empty plaintext were returned on both paths, one of them
\* holding a character of the URL-safe pair '-' '_'
TokenInAlphabetWitness ==
    \E r, q \in BagToSet(issued) :
        /\ r.data = <<>> /\ ~r.forceKey.present
        /\ q.data = <<>> /\ q.forceKey = Str(SecretB)
        /\ \E i \in 1..Len(q.token) : q.token[i] \in {45, 95}

\* C12  Uniform authentication failure, as claimed: every decrypt that fails
\* on a token whose bytes were changed or cut reports the same single failure
\* value, AuthenticationFailure, so that the caller cannot tell the cause
\* (changed nonce, corrupted ciphertext, corrupted tag, truncated token).
UniformAuthenticationFailure ==
    \A c \in Callers :
        (Returned(c, "decrypt") /\ ~calls[c].result.ok)
            => calls[c].result = Throw("[EncryptionService.decrypt] " \o AuthMsg)

\* C13  Explicit-key operations use the supplied key, as claimed: a call that
\* was given a secret, whatever its value, works with the key derived from
\* that secret and never with the cached default key.
SuppliedKeyAlwaysUsed ==
    \A c \in Callers :
        (calls[c].pc \in {"enc_iv", "enc_cipher", "dec_split", "dec_open", "returned"}
         /\ calls[c].forceKey.present)
            => calls[c].key = scryptSync(calls[c].forceKey.str, SALT, KeyLen)

\* C14  Strict text decoding, as claimed: decrypt of a token string that
\* holds a character outside the unpadded URL-safe base64 alphabet fails; the
\* decoder neither skips the character nor stops at it and goes on with the
\* bytes it has.
StrictTextDecoding ==
    \A c \in Callers :
        (Returned(c, "decrypt") /\ ~InAlphabet(calls[c].encoded))
            => ~calls[c].result.ok

\* decipher.final() of the call passed: the cipher was built, the tag the
\* call cut from the envelope was accepted by setAuthTag and equals the tag
\* computed over the whole ciphertext of the call, in the length it was given
TagVerified(call) ==
    /\ Len(call.key) = KeyLen
    /\ Len(call.iv) > 0
    /\ Len(call.authTag) \in ValidGcmTagLengths
    /\ call.authTag = SubSeq(GcmTag(call.key, call.iv, FromHex(call.encryptedHex)),
                             1, Len(call.authTag))

\* C15  Fail closed: a decrypt call holds no result before it went through
\* verification; it returns a plaintext only if tag verification over the
\* whole ciphertext passed, and that plaintext is the decryption of the whole
\* ciphertext; where verification did not pass it returns a failure that
\* carries no plaintext characters, partial or complete.
FailClosed ==
    \A c \in Callers :
        calls[c].op = "decrypt" =>
            /\ calls[c].pc # "returned" => calls[c].result = NoResult
            /\ (calls[c].pc = "returned" /\ calls[c].result.ok) =>
                  /\ TagVerified(calls[c])
                  /\ calls[c].result.value =
                        Utf8Decode(XorBytes(FromHex(calls[c].encryptedHex),
                                            KeyStream(calls[c].key, calls[c].iv,
                                                      Len(calls[c].encryptedHex) \div 2)))
            /\ (calls[c].pc = "returned" /\ ~TagVerified(calls[c])) =>
                  (~calls[c].result.ok /\ calls[c].result.value = <<>>)

\* a decrypt of a token of the non-empty plaintext with a bit of its tag
\* flipped has returned: a failure, without a character of the plaintext
FailClosedWitness ==
    \E c \in Callers :
        /\ Returned(c, "decrypt")
        /\ calls[c].tamper.kind = "flip"
        /\ calls[c].tamper.at >= 8 * IvLen /\ calls[c].tamper.at < 8 * TagEnd
        /\ calls[c].src.data = <<97, 233>>
        /\ Len(calls[c].encryptedHex) > 0
        /\ ~calls[c].result.ok /\ calls[c].result.value = <<>>

\* a token string that is no token: it holds a character outside the
\* alphabet, or it decodes to fewer bytes than a nonce and a tag take
Malformed(encoded) == ~InAlphabet(encoded) \/ Len(FromBase64url(encoded)) < TagEnd

\* the cipher calls lines 65-69 make before they return or throw
DecipherSteps(k, iv, authTag) ==
    IF Len(k) # KeyLen \/ Len(iv) = 0 THEN <<"createDecipheriv">>
    ELSE IF Len(authTag) \notin ValidGcmTagLengths THEN <<"createDecipheriv", "setAuthTag">>
    ELSE <<"createDecipheriv", "setAuthTag", "update", "final">>

\* the cryptographic calls a decrypt call has made when it stands at its pc:
\* line 57 derives a key when an override is given, lines 65-69 run the cipher
CryptoWork(call) ==
    (IF call.pc \in {"dec_split", "dec_open", "returned"} /\ Truthy(call.forceKey)
     THEN <<"scryptSync">> ELSE <<>>)
    \o (IF call.pc = "returned"
        THEN DecipherSteps(call.key, call.iv, call.authTag) ELSE <<>>)

\* C16  Validation order in decrypt, as claimed: on both key paths the text is
\* decoded and checked for its 28 bytes before any cryptographic work; a call
\* that has not decoded its token yet has derived no key, and a call on a
\* malformed token never derives a key, builds a cipher or verifies a tag.
ValidationBeforeCrypto ==
    \A c \in Callers :
        calls[c].op = "decrypt" =>
            /\ calls[c].pc \in {"dec_key", "dec_split"} => CryptoWork(calls[c]) = <<>>
            /\ Malformed(calls[c].encoded) => CryptoWork(calls[c]) = <<>>

\* the order in which a call goes through its statements
PipelineOrder ==
    {<<"idle", "enc_key">>, <<"enc_key", "enc_iv">>, <<"enc_iv", "enc_cipher">>,
     <<"enc_cipher", "returned">>, <<"idle", "dec_key">>, <<"dec_key", "dec_split">>,
     <<"dec_split", "dec_open">>, <<"dec_open", "returned">>, <<"returned", "idle">>}

\* C17  Failure propagation without retry: whatever the cipher throws inside
\* encrypt or decrypt reaches the caller as a failure with the message of the
\* error, never as a returned value; a call goes through its statements once,
\* in order, and never back; decrypt is deterministic: two decrypt calls with
\* the same token string and key source return the same, so a failed decrypt
\* that is repeated fails again.
FailurePropagates ==
    /\ [](/\ \A c \in Callers :
                /\ Returned(c, "decrypt") =>
                      LET d == Decipher(calls[c].key, calls[c].iv,
                                        calls[c].authTag, calls[c].encryptedHex)
                      IN  /\ calls[c].result.ok <=> d.ok
                          /\ ~d.ok => calls[c].result =
                                        Throw("[EncryptionService.decrypt] " \o d.message)
                /\ Returned(c, "encrypt") =>
                      LET e == Cipher(calls[c].key, calls[c].iv, calls[c].data)
                      IN  /\ calls[c].result.ok <=> e.message = ""
                          /\ e.message # "" => calls[c].result =
                                        Throw("[EncryptionService.encrypt] " \o e.message)
          /\ \A c, d \in Callers :
                (/\ Returned(c, "decrypt") /\ Returned(d, "decrypt")
                 /\ calls[c].encoded = calls[d].encoded
                 /\ calls[c].forceKey = calls[d].forceKey)
                    => calls[c].result = calls[d].result)
    /\ [][\A c \in Callers :
            calls'[c].pc # calls[c].pc => <<calls[c].pc, calls'[c].pc>> \in PipelineOrder]_vars

\* a decrypt under the wrong secret failed, was repeated with the same token
\* and secret, and failed again with the same error
FailurePropagatesWitness ==
    \E c, d \in Callers :
        /\ c # d
        /\ Returned(c, "decrypt") /\ Returned(d, "decrypt")
        /\ calls[c].tamper = NoTamper
        /\ calls[c].encoded = calls[d].encoded
        /\ calls[c].forceKey = calls[d].forceKey
        /\ calls[c].forceKey = Str(SecretB) /\ ~calls[c].src.forceKey.present
        /\ ~calls[c].result.ok /\ ~calls[d].result.ok
        /\ calls[c].result.message # ""

\* C18  encrypt never fails for well-formed inputs: once the service is
\* Ready, every encrypt call without override and every encrypt call under a
\* non-empty supplied secret returns a token, for every plaintext, the empty
\* one included; the step that runs the cipher never ends in a failure.
EncryptNeverFails ==
    \A c \in Callers :
        /\ (Returned(c, "encrypt")
            /\ (~calls[c].forceKey.present \/ Len(calls[c].forceKey.str) > 0))
              => (/\ state = "Ready"
                  /\ calls[c].result.ok
                  /\ calls[c].result.message = ""
                  /\ Len(calls[c].result.value) > 0)
        /\ (calls[c].pc = "enc_cipher"
            /\ (~calls[c].forceKey.present \/ Len(calls[c].forceKey.str) > 0))
              => EncryptBody(calls[c].key, calls[c].iv, calls[c].data).ok

\* encrypt of the empty plaintext under a supplied secret returned a token
\* after encrypt of the non-ASCII plaintext on the default key had returned one
EncryptNeverFailsWitness ==
    \E c \in Callers :
        /\ Returned(c, "encrypt")
        /\ calls[c].data = <<>>
        /\ calls[c].forceKey = Str(SecretB)
        /\ calls[c].result.ok
        /\ \E r \in BagToSet(issued) : r.data = <<97, 233>> /\ ~r.forceKey.present

\* C19  Envelope layout: the decoded bytes of a returned token are the nonce
\* the call drew (12 bytes), then the tag (16 bytes), then the ciphertext, and
\* nothing else; decrypt cuts at the offsets 12 and 28 and so gets the same
\* three fields back, for every ciphertext length, 0 included.
EnvelopeLayout ==
    /\ \A r \in BagToSet(issued) :
          LET combined == FromBase64url(r.token)
              c == Cipher(r.key, r.iv, r.data)
              ct == FromHex(c.encrypted)
          IN  /\ Len(r.iv) = IvLen /\ Len(c.authTag) = TagEnd - IvLen
              /\ Len(combined) = TagEnd + Len(ct)
              /\ SubSeq(combined, 1, IvLen) = r.iv
              /\ SubSeq(combined, IvLen + 1, TagEnd) = c.authTag
              /\ SubSeq(combined, TagEnd + 1, Len(combined)) = ct
    /\ \A c \in Callers :
          (calls[c].op = "decrypt" /\ calls[c].pc \in {"dec_open", "returned"}
           /\ calls[c].tamper = NoTamper)
              => LET e == Cipher(calls[c].src.key, calls[c].src.iv, calls[c].src.data)
                 IN  /\ calls[c].iv = calls[c].src.iv
                     /\ calls[c].authTag = e.authTag
                     /\ calls[c].encryptedHex = e.encrypted

\* decrypt has cut the envelope of a token of the empty plaintext (ciphertext
\* of length 0) and one of the non-empty plaintext was issued too
EnvelopeLayoutWitness ==
    /\ \E c \in Callers :
          /\ calls[c].op = "decrypt" /\ calls[c].pc = "dec_open"
          /\ calls[c].tamper = NoTamper
          /\ calls[c].src.data = <<>>
          /\ calls[c].encryptedHex = <<>>
          /\ Len(calls[c].authTag) = TagEnd - IvLen
          /\ \E i \in 1..IvLen : calls[c].iv[i] # 0
    /\ \E r \in BagToSet(issued) : r.data = <<97, 233>>

\* C20  Token length: for a plaintext of N UTF-8 bytes the ciphertext has N
\* bytes, the envelope 28 + N bytes and the token ceil(4 * (28 + N) / 3)
\* characters; for N = 35 the envelope has 63 bytes and the token 84
\* characters; the token of the example folder ID is longer than 50 and
\* shorter than 100 characters.
TokenLength ==
    \A r \in BagToSet(issued) :
        LET n == Len(Utf8Encode(r.data))
            c == Cipher(r.key, r.iv, r.data)
        IN  /\ Len(FromHex(c.encrypted)) = n
            /\ Len(c.encrypted) = 2 * n
            /\ Len(FromBase64url(r.token)) = TagEnd + n
            /\ Len(r.token) = (4 * (TagEnd + n) + 2) \div 3
            /\ n = 35 => (Len(FromBase64url(r.token)) = 63 /\ Len(r.token) = 84)
            /\ r.data = FolderId => (Len(r.token) > 50 /\ Len(r.token) < 100)

\* tokens of the 35-byte identifier and of the example folder ID were issued,
\* and a decrypt gave the folder ID back
TokenLengthWitness ==
    /\ \E r, q \in BagToSet(issued) :
          /\ r.data = Identifier35 /\ Len(r.token) = 84
          /\ q.data = FolderId
    /\ \E c \in Callers :
          Returned(c, "decrypt") /\ calls[c].result = Return(FolderId)

\* the values a response must not carry: the override secret of the request,
\* the runtime secret, and the keys derived from them
RouteSecrets ==
    {env.ENCRYPTION_KEY.str, key, SelectKey(route.key, key)}
    \cup (IF Truthy(route.key) THEN {route.key.str} ELSE {})

\* C21  Debug endpoint result: in development, a request with a non-empty q
\* calls encrypt(q, key) and then decrypt on the token encrypt returned, with
\* the same override, and is answered 200 with encryptedValue that token and
\* decryptedValue q; the body holds message, encryptedValue and decryptedValue
\* only, none of them the override secret or a key; a request whose q is
\* absent or empty is answered 400 and no call of the service is made.
DebugEndpointResult ==
    /\ []((route.pc = "done" /\ env.NODE_ENV = "development") =>
            IF Truthy(route.query)
            THEN /\ route.response.status = 200
                 /\ DOMAIN route.response.body =
                        {"message", "encryptedValue", "decryptedValue"}
                 /\ route.response.body.encryptedValue = route.encrypted
                 /\ route.response.body.decryptedValue = route.query.str
                 /\ route.response.body.encryptedValue \notin RouteSecrets
                 /\ route.response.body.decryptedValue \notin RouteSecrets
                 /\ \E r \in BagToSet(issued) :
                        /\ r.token = route.encrypted
                        /\ r.data = route.query.str
                        /\ r.forceKey = route.key
            ELSE /\ route.response =
                        TextResponse(400, "Add query parameter 'q' with the value to encrypt")
                 /\ route.encrypted = <<>>)
    /\ [][/\ (route.pc = "query" /\ ~Truthy(route.query))
                => (calls' = calls /\ issued' = issued /\ route'.pc \in {"query", "done"})
          /\ (~RouteIdle /\ calls[RouteCaller].pc = "idle" /\ calls'[RouteCaller].pc # "idle")
                => \/ /\ route.pc = "encrypt"
                      /\ calls'[RouteCaller].op = "encrypt"
                      /\ calls'[RouteCaller].data = route.query.str
                      /\ calls'[RouteCaller].forceKey = route.key
                   \/ /\ route.pc = "decrypt"
                      /\ calls'[RouteCaller].op = "decrypt"
                      /\ calls'[RouteCaller].encoded = route.encrypted
                      /\ calls'[RouteCaller].forceKey = route.key
          /\ (route.pc # "decrypt" /\ route'.pc = "decrypt")
                => (/\ calls[RouteCaller].op = "encrypt"
                    /\ calls[RouteCaller].pc = "returned"
                    /\ route'.encrypted = calls[RouteCaller].result.value)]_vars

\* a request with q and an override secret was answered 200 with both values
DebugEndpointResultWitness ==
    /\ route.pc = "done"
    /\ route.query = Str(<<97, 233>>)
    /\ route.key = Str(SecretB)
    /\ route.response.status = 200
    /\ route.response.body.decryptedValue = <<97, 233>>
    /\ Len(route.response.body.encryptedValue) > 0

\* C22  Debug endpoint gating: in production every request is answered 404,
\* whatever q and key are, and between its arrival and its answer no
\* statement of encrypt or decrypt runs and no token is issued; the handler is
\* past its gate only when the environment is not production.
DebugEndpointGated ==
    /\ [](env.NODE_ENV = "production" =>
            /\ route.pc \in {"idle", "gate", "done"}
            /\ route.encrypted = <<>>
            /\ route.pc = "done" =>
                  route.response = TextResponse(404, "Not available in production"))
    /\ [](route.pc \in {"query", "encrypt", "decrypt"} => env.NODE_ENV # "production")
    /\ [][(env.NODE_ENV = "production" /\ ~RouteIdle)
            => (calls' = calls /\ issued' = issued)]_vars

\* in production a request with q and an override secret was answered 404
DebugEndpointGatedWitness ==
    /\ env.NODE_ENV = "production"
    /\ route.pc = "done"
    /\ route.query = Str(<<97, 233>>)
    /\ route.key = Str(SecretB)
    /\ route.response.status = 404

\* C23  Short tokens are never accepted, as claimed: no decrypt call returns a
\* plaintext for a token string that decodes to fewer than 28 bytes; a token
\* of the empty plaintext cut to 12..27 decoded bytes, fewer than 16 of them
\* tag bytes, is refused under either key source.
ShortTokenNeverAccepted ==
    \A c \in Callers :
        (Returned(c, "decrypt") /\ Len(FromBase64url(calls[c].encoded)) < TagEnd)
            => ~calls[c].result.ok

\* C24  Key selection by truthiness: a call whose override is absent or the
\* empty string works with the cached default key, any other call with the
\* key derived from its override; a token of encrypt(P, "") is decrypted to P
\* by decrypt(token) without override; the route hands an empty `key`
\* parameter to both calls as the override "" and answers "Encrypted with
\* environment key".
TruthinessFallback ==
    /\ \A c \in Callers :
          /\ calls[c].pc \in {"enc_iv", "enc_cipher", "dec_split", "dec_open", "returned"}
                => calls[c].key = IF Truthy(calls[c].forceKey)
                                  THEN scryptSync(calls[c].forceKey.str, SALT, KeyLen)
                                  ELSE key
          /\ (/\ DecryptedIntact(c)
              /\ calls[c].src.forceKey = Str(<<>>)
              /\ ~calls[c].forceKey.present)
                => calls[c].result = Return(calls[c].src.data)
    /\ (route.key = Str(<<>>) /\ route.pc \in {"encrypt", "decrypt"}
        /\ calls[RouteCaller].pc # "idle")
          => calls[RouteCaller].forceKey = Str(<<>>)
    /\ (route.key = Str(<<>>) /\ route.pc = "done" /\ route.response.status = 200)
          => /\ route.response.body.message = "Encrypted with environment key"
             /\ \E r \in BagToSet(issued) :
                    /\ r.token = route.encrypted
                    /\ r.forceKey = Str(<<>>)
                    /\ r.key = key

\* the route answered a request with an empty key parameter, and a decrypt
\* without override has returned the plaintext of an encrypt(P, "")
TruthinessFallbackWitness ==
    /\ route.pc = "done"
    /\ route.key = Str(<<>>)
    /\ route.response.status = 200
    /\ \E c \in Callers :
          /\ DecryptedIntact(c)
          /\ calls[c].src.forceKey = Str(<<>>)
          /\ calls[c].src.token # route.encrypted
          /\ ~calls[c].forceKey.present
          /\ calls[c].result = Return(<<97, 233>>)

\* the messages of the Errors the storage client's constructor throws
StorageErrors == {"Failed to decode GD_SERVICE_B64", "Failed to parse service account"}

\* C25  Load order: the storage client is constructed before the encryption
\* service; the service changes state only after the storage client was
\* constructed and is Ready only with valid storage credentials; with
\* credentials that do not decode or parse the service is never constructed,
\* no key is derived and no call starts, whatever the runtime secret, and the
\* failure of the module is the storage client's, not MissingSecret.
LoadOrder ==
    /\ [](/\ state = "Ready" => (env.GD_SERVICE_B64 = "valid" /\ load = "done")
          /\ env.GD_SERVICE_B64 # "valid" =>
                /\ state = "Uninitialized"
                /\ derivations = 0 /\ key = <<>>
                /\ load \in {"start", "failed"}
                /\ \A c \in Callers : calls[c].pc = "idle"
                /\ load = "failed" => loadError \in StorageErrors
          /\ (load = "failed" /\ loadError \notin StorageErrors) =>
                (env.GD_SERVICE_B64 = "valid" /\ state = "Failed"))
    /\ [][(state' # state \/ key' # key \/ derivations' # derivations)
            => load = "gdrive"]_vars

\* the module failed with unreadable storage credentials and an empty runtime
\* secret, and the failure is the storage client's
LoadOrderWitness ==
    /\ load = "failed"
    /\ env.GD_SERVICE_B64 = "undecodable"
    /\ env.ENCRYPTION_KEY = Str(<<>>)
    /\ loadError = "Failed to decode GD_SERVICE_B64"
    /\ state = "Uninitialized"

====
